---- MODULE Spec2Model ----
(***************************************************************************)
(* Masking and scheduling engine of SoundStorm (src/model/soundstorm.py):  *)
(* the training masker (_level_mask, _fine_mask, _masking), the top-       *)
(* fraction filter (top_k) and the iterative decoder (generate).           *)
(*                                                                         *)
(* Tensors are functions with 0-based indices.  The network (conformer,    *)
(* heads, to_logits) is opaque: its logits are drawn nondeterministically. *)
(* Random draws (uniform_, rand().argsort, gumbel noise) are \E choices.   *)
(***************************************************************************)
EXTENDS Integers, Sequences, FiniteSets

(* ------------------------------ bounds -------------------------------- *)
\* longest semantic condition sequence conds.size(1) given to generate()
MaxCondLen == 3
\* largest per-level entry of config inference_steps
MaxSteps == 3
\* longest time axis of a training batch
MaxTime == 3
\* largest training batch
MaxBatch == 1
\* mask ratios cos(u*pi/2) are drawn from {1/RatioDen, ..., RatioDen/RatioDen}
RatioDen == 4
\* filter_threshold is drawn from {1/2^ThresBits, ..., 2^ThresBits/2^ThresBits}
\* (dyadic, so that 1 - thres and its product with the vocabulary size are
\* exact in floating point, as they are here)
ThresBits == 1

(* --------------------------- token space ------------------------------ *)
\* self.n_q = acoustic_num_quantizers, the number of quantizer levels.  The
\* source runs with 8 (generate() writes the 8 out); the model is the same
\* program configured with 2 levels.
NumQ == 2
\* number of real codes (ids 0 .. acoustic_codebook_size-1, the width of
\* the logits).  The source runs with 1025; the model is the same program
\* configured with 2 codes.
acoustic_codebook_size == 2
ignore_index == acoustic_codebook_size
mask_token_id == acoustic_codebook_size
mask_upper_level == acoustic_codebook_size
\* min(..., 225) of generate(): at most 3 seconds of prompt
PromptCap == 225

Vocab == 0 .. (acoustic_codebook_size - 1)
Levels == 0 .. (NumQ - 1)
ThresDen == 2 ^ ThresBits
NegInf == 0 - 1
NegFinfoMax == 0 - 1
Min(a, b) == IF a < b THEN a ELSE b
Max(a, b) == IF a > b THEN a ELSE b

VARIABLES
  pc,                   \* where the caller is: idle, fwd, masked, topk, outer, inner, done
  steps,                \* self.steps: inference steps per level, read by generate()
  filter_threshold,     \* self.filter_threshold = filter_threshold / ThresDen, read by top_k callers
  codes,                \* the caller's codes tensor [b][n][q]
  q,                    \* forward(): the mask level
  t,                    \* forward(): the prefix length
  masked_codes,         \* _masking result: one [b][n] tensor per level
  label,                \* _masking result: labels [b][n]
  rand_probs,           \* _level_mask: cosine_schedule(rand_times) * RatioDen, per item
  probs,                \* result of a top_k call [n][code]
  num_prompt,           \* generate(): prompt length
  seq,                  \* generate(): continuation buffer [n][q]
  mask,                 \* generate(): masked flags [n][q]
  rvq_layer,            \* generate(): outer loop variable
  all_mask_num_tokens,  \* generate(): schedule of the current level
  step,                 \* generate(): inner loop steps already run at this level
  out                   \* generate(): returned tensor [n][q]

vars == <<pc, steps, filter_threshold, codes, q, t, masked_codes, label, rand_probs, probs,
          num_prompt, seq, mask, rvq_layer, all_mask_num_tokens, step, out>>

trainVars == <<q, t, masked_codes, label, rand_probs>>
genVars == <<num_prompt, seq, mask, rvq_layer, all_mask_num_tokens, step, out>>
config == <<steps, filter_threshold>>

(* ------------------------------ inputs -------------------------------- *)
\* ground-truth code tensors of shape (b, n, NumQ) with values in Vocab
GroundTruth(b, n, s, a) ==
  [i \in 0 .. (b - 1) |-> [j \in 0 .. (n - 1) |-> [l \in Levels |->
      (s + i + a * j + l) % acoustic_codebook_size]]]

SeqLen(c) == IF DOMAIN c = {} THEN 0 ELSE Cardinality(DOMAIN c[0])

\* torch.rand((b, n)).argsort(dim=-1): one permutation of 0..n-1 per item
Perms(n) == {f \in [0 .. (n - 1) -> 0 .. (n - 1)] :
               \A i, j \in 0 .. (n - 1) : f[i] = f[j] => i = j}

(* ------------------------- training masker ---------------------------- *)
\* prompt_mask = ones((b, t)).eq(0)
PromptMaskBitBug == TRUE

PromptMaskBit == FALSE

\* mask = cat([prompt_mask, batched_randperm < num_tokens_mask]) for one
\* batch item, with num_tokens_mask = (rand_probs * (seq_len - t)).clamp(min=1.)
\* and rand_probs = rk / RatioDen
LevelMaskBitsBug(perm, rk, seq_len, tt) ==
  [n \in 0 .. (seq_len - 1) |->
     IF n < tt THEN PromptMaskBit
     ELSE perm[n - tt] * RatioDen <= Max(RatioDen, rk * (seq_len - tt))]

LevelMaskBits(perm, rk, seq_len, tt) ==
  [n \in 0 .. (seq_len - 1) |->
     IF n < tt THEN PromptMaskBit
     ELSE perm[n - tt] * RatioDen < Max(RatioDen, rk * (seq_len - tt))]

\* code = torch.where(mask, self.mask_token_id, code)
LevelMaskCode(code, m) ==
  [b \in DOMAIN code |-> [n \in DOMAIN code[b] |->
     IF m[b][n] THEN mask_token_id ELSE code[b][n]]]

\* labels = torch.where(mask, code, self.ignore_index)
LevelMaskLabelsBug(code, m) ==
  [b \in DOMAIN code |-> [n \in DOMAIN code[b] |->
     IF m[b][n] THEN ignore_index ELSE code[b][n]]]

LevelMaskLabels(code, m) ==
  [b \in DOMAIN code |-> [n \in DOMAIN code[b] |->
     IF m[b][n] THEN code[b][n] ELSE ignore_index]]

\* _fine_mask: code[:, t:] = self.mask_upper_level, written through the view
\* `code` of the caller's tensor (rearrange 'b n q -> q b n' is a view)
FineMask(c, qq, tt) ==
  [b \in DOMAIN c |-> [n \in DOMAIN c[b] |-> [l \in Levels |->
     IF l > qq /\ n >= tt THEN mask_upper_level ELSE c[b][n][l]]]]

\* codes[:, :, l] as a [b][n] tensor
LevelOf(c, l) == [b \in DOMAIN c |-> [n \in DOMAIN c[b] |-> c[b][n][l]]]

\* forward(): q = random.randint(0, n_q - 1); t = random.randint(0, len - 1)
ForwardCall ==
  /\ pc = "idle"
  /\ \E b \in 1 .. MaxBatch, n \in 1 .. MaxTime, s \in Vocab, a \in 0 .. 1 :
       codes' = GroundTruth(b, n, s, a)
  /\ q' \in Levels
  /\ t' \in 0 .. (SeqLen(codes') - 1)
  /\ pc' = "fwd"
  /\ UNCHANGED <<config, masked_codes, label, rand_probs, probs, genVars>>

\* the masks _level_mask can draw for one batch item whose ratio is
\* rk / RatioDen: one per permutation torch.rand(...).argsort can give
MaskDraws(rk, seq_len, tt) ==
  {LevelMaskBits(perm, rk, seq_len, tt) : perm \in Perms(seq_len - tt)}

\* _masking(codes, q, t)
Masking ==
  /\ pc = "fwd"
  /\ \E rk \in [DOMAIN codes -> 1 .. RatioDen] :
     \E m \in [DOMAIN codes -> UNION {MaskDraws(r, SeqLen(codes), t) : r \in 1 .. RatioDen}] :
       /\ \A b \in DOMAIN codes : m[b] \in MaskDraws(rk[b], SeqLen(codes), t)
       /\ rand_probs' = rk
       /\ LET after == FineMask(codes, q, t)
          IN /\ codes' = after
             /\ masked_codes' = [l \in Levels |->
                  IF l = q THEN LevelMaskCode(LevelOf(codes, l), m)
                  ELSE LevelOf(after, l)]
             /\ label' = LevelMaskLabels(LevelOf(codes, q), m)
  /\ pc' = "masked"
  /\ UNCHANGED <<config, q, t, probs, genVars>>

(* ------------------------- top-fraction filter ------------------------ *)
\* logits of one position: the network's output, up to order (a ranking of
\* the codes, larger = more likely)
Rankings == Perms(acoustic_codebook_size)

\* k = math.ceil((1 - thres) * logits.shape[-1]), thres = th / ThresDen
TopKCount(th, width) == ((ThresDen - th) * width + ThresDen - 1) \div ThresDen

\* top_k for one position: the k largest logits keep their value, the rest
\* become -inf
top_k(lg, th) ==
  LET k == TopKCount(th, acoustic_codebook_size)
  IN [v \in Vocab |-> IF lg[v] >= acoustic_codebook_size - k THEN lg[v] ELSE NegInf]

Retained(pr) == {v \in Vocab : pr[v] # NegInf}

\* a call top_k(logits, self.filter_threshold) on a (1, n, vocab) tensor
TopKCall ==
  /\ pc = "idle"
  /\ filter_threshold' \in 1 .. ThresDen
  /\ \E n \in 1 .. MaxTime : \E lg \in [0 .. (n - 1) -> Rankings] :
       probs' = [i \in 0 .. (n - 1) |-> top_k(lg[i], filter_threshold')]
  /\ pc' = "topk"
  /\ UNCHANGED <<steps, codes, trainVars, genVars>>

(* ------------------------------ generate ------------------------------ *)
\* int(conds.size(1) * 1.5)
NumLatentsInput(c) == (3 * c) \div 2
\* min(int(num_latents_input * 0.5), 225)
NumPrompt(c) == Min(NumLatentsInput(c) \div 2, PromptCap)

\* floor(10^6 * cos(pi/2 * i/S)) for i = 1..S: cosine_schedule(times[1:]) with
\* times = linspace(0, 1, S + 1).  In float32 the last entry is -4.4e-8,
\* which .long() truncates to 0 for every length below 2.2e7.
CosTable ==
  <<  <<0>>,
      <<707106, 0>>,
      <<866025, 500000, 0>>,
      <<923879, 707106, 382683, 0>>,
      <<951056, 809016, 587785, 309016, 0>>,
      <<965925, 866025, 707106, 500000, 258819, 0>> >>

\* the index into times of the schedule's i-th entry (times[1:])
ScheduleTimeBug(i) == i - 1

ScheduleTime(i) == i

CosMicro(i, S) == IF i = 0 THEN 1000000 ELSE CosTable[S][i]

\* (cosine_schedule(times[1:]) * seq_len).long(), entry i (1-based).  Where
\* cos is exactly 1/2 the float32 product lies within one ulp of seq_len/2
\* on either side, so both truncations are possible.
MaskNumChoices(i, S, n) ==
  LET j == ScheduleTime(i)
  IN IF 3 * j = 2 * S /\ n > 0 THEN {(n - 1) \div 2, n \div 2}
     ELSE {(CosMicro(j, S) * n) \div 1000000}

Schedules(S, n) ==
  {s \in [1 .. S -> 0 .. n] : \A i \in 1 .. S : s[i] \in MaskNumChoices(i, S, n)}

\* prompt = codes[:, :num_prompt, :]
Prompt == [n \in 0 .. (num_prompt - 1) |-> codes[0][n]]

\* torch.cat([prompt, seq], dim=1)
Cat(p, s) ==
  LET np == Cardinality(DOMAIN p)
  IN [n \in 0 .. (np + Cardinality(DOMAIN s) - 1) |->
        IF n < np THEN p[n] ELSE s[n - np]]

Pos == DOMAIN seq

ScoreVals == {0, 1}
NaN == 1 + 1

\* gumbel_sample(logits): the argmax of logits/temperature + noise is any
\* code that survived the filter; with every logit -inf all sums are equal
\* and argmax returns index 0
SampleChoices(pr) == IF Retained(pr) = {} THEN {0} ELSE Retained(pr)

\* 1 - softmax(logits)[sampled]: 0 when one code survived, NaN when none
ScoreChoices(pr) ==
  IF Retained(pr) = {} THEN {NaN}
  ELSE IF Cardinality(Retained(pr)) = 1 THEN {0} ELSE ScoreVals

\* seq[:, :, l] = torch.where(mask[:, :, l], sampled_ids, seq[:, :, l])
FillBug(sq, mk, l, sampled) ==
  [n \in DOMAIN sq |-> [j \in Levels |->
     IF mk[n][j] THEN sampled[n] ELSE sq[n][j]]]

Fill(sq, mk, l, sampled) ==
  [n \in DOMAIN sq |-> [j \in Levels |->
     IF j = l /\ mk[n][l] THEN sampled[n] ELSE sq[n][j]]]

\* scores.masked_fill(~mask[:, :, l], -finfo.max)
MaskedFillScoresBug(sc, mk, l) == sc

MaskedFillScores(sc, mk, l) ==
  [n \in DOMAIN sc |-> IF ~mk[n][l] THEN NegFinfoMax ELSE sc[n]]

\* scores.topk(m).indices: any m positions none of which scores below a
\* position left out (NaN sorts above every number)
TopKIndices(sc, m) ==
  {S \in SUBSET (DOMAIN sc) :
     /\ Cardinality(S) = m
     /\ \A a \in S, b \in (DOMAIN sc) \ S : sc[a] >= sc[b]}

\* mask[:, :, l] = zeros_like(scores).scatter(1, mask_indices, True)
Scatter(mk, l, idx) ==
  [n \in DOMAIN mk |-> [j \in Levels |-> IF j = l THEN n \in idx ELSE mk[n][j]]]

\* seq[:, :, l] = seq[:, :, l].masked_fill(mask[:, :, l], self.mask_token_id)
RemaskBug(sq, mk, l) == sq

Remask(sq, mk, l) ==
  [n \in DOMAIN sq |-> [j \in Levels |->
     IF j = l /\ mk[n][l] THEN mask_token_id ELSE sq[n][j]]]

\* generate(conds, codes) up to the outer loop: codes holds the ground truth
\* of the whole utterance, batch 1
GenStart ==
  /\ pc = "idle"
  /\ \E c \in 1 .. MaxCondLen, s \in Vocab, a \in 0 .. 1 :
       /\ codes' = GroundTruth(1, NumLatentsInput(c), s, a)
       /\ num_prompt' = NumPrompt(c)
       /\ LET seq_len == NumLatentsInput(c) - NumPrompt(c)
          IN /\ seq' = [n \in 0 .. (seq_len - 1) |-> [l \in Levels |-> mask_token_id]]
             /\ mask' = [n \in 0 .. (seq_len - 1) |-> [l \in Levels |-> TRUE]]
  /\ steps' \in [Levels -> 1 .. MaxSteps]
  /\ filter_threshold' \in 1 .. ThresDen
  /\ rvq_layer' = 0
  /\ pc' = "outer"
  /\ UNCHANGED <<trainVars, probs, all_mask_num_tokens, step, out>>

\* head of the outer loop: the schedule of level rvq_layer
LevelStart ==
  /\ pc = "outer"
  /\ rvq_layer < NumQ
  /\ all_mask_num_tokens' \in Schedules(steps[rvq_layer], Cardinality(Pos))
  /\ step' = 0
  /\ pc' = "inner"
  /\ UNCHANGED <<config, codes, trainVars, probs, num_prompt, seq, mask, rvq_layer, out>>

\* what one position can yield in one iteration: the network's logits are
\* filtered by top_k, a code is sampled from them and scored
PosOutcomes(th) ==
  {o \in Vocab \X (ScoreVals \cup {NaN}) :
     \E lg \in Rankings :
        /\ o[1] \in SampleChoices(top_k(lg, th))
        /\ o[2] \in ScoreChoices(top_k(lg, th))}

\* one iteration of the inner loop
GenStep ==
  /\ pc = "inner"
  /\ step < steps[rvq_layer]
  /\ LET mask_num_tokens == all_mask_num_tokens[step + 1]
     IN \E o \in [Pos -> PosOutcomes(filter_threshold)] :
        LET sampled_ids == [n \in Pos |-> o[n][1]]
            scores == [n \in Pos |-> o[n][2]]
            filled == Fill(seq, mask, rvq_layer, sampled_ids)
        IN IF mask_num_tokens = 0
           THEN /\ seq' = filled
                /\ mask' = mask
           ELSE \E mask_indices \in
                    TopKIndices(MaskedFillScores(scores, mask, rvq_layer), mask_num_tokens) :
                  /\ mask' = Scatter(mask, rvq_layer, mask_indices)
                  /\ seq' = Remask(filled, mask', rvq_layer)
  /\ step' = step + 1
  /\ UNCHANGED <<pc, config, codes, trainVars, probs, num_prompt, rvq_layer,
                 all_mask_num_tokens, out>>

\* the inner loop is exhausted: next level
LevelEnd ==
  /\ pc = "inner"
  /\ step = steps[rvq_layer]
  /\ rvq_layer' = rvq_layer + 1
  /\ pc' = "outer"
  /\ UNCHANGED <<config, codes, trainVars, probs, num_prompt, seq, mask,
                 all_mask_num_tokens, step, out>>

\* out = torch.cat([prompt, seq], dim=1); return out
GenReturn ==
  /\ pc = "outer"
  /\ rvq_layer = NumQ
  /\ out' = Cat(Prompt, seq)
  /\ pc' = "done"
  /\ UNCHANGED <<config, codes, trainVars, probs, num_prompt, seq, mask, rvq_layer,
                 all_mask_num_tokens, step>>

Init ==
  /\ pc = "idle"
  /\ steps = <<>>
  /\ filter_threshold = ThresDen
  /\ codes = <<>>
  /\ q = 0
  /\ t = 0
  /\ masked_codes = <<>>
  /\ label = <<>>
  /\ rand_probs = <<>>
  /\ probs = <<>>
  /\ num_prompt = 0
  /\ seq = <<>>
  /\ mask = <<>>
  /\ rvq_layer = 0
  /\ all_mask_num_tokens = <<>>
  /\ step = 0
  /\ out = <<>>

Next ==
  \/ ForwardCall
  \/ Masking
  \/ TopKCall
  \/ GenStart
  \/ LevelStart
  \/ GenStep
  \/ LevelEnd
  \/ GenReturn

Spec == Init /\ [][Next]_vars

(* ------------------------------ claims -------------------------------- *)
\* level k of generate() is the one being decoded
Decoding == pc = "inner"
\* generate() is running or has returned
InGenerate == pc \in {"outer", "inner", "done"}
\* continuation positions of level l whose buffer value is mask-id
MaskIdCount(l) == Cardinality({n \in Pos : seq[n][l] = mask_token_id})
\* continuation positions of level l flagged masked
FlagCount(l) == Cardinality({n \in Pos : mask[n][l]})
\* round(cos(pi/2 * i/S) * n), half up
RoundCos(i, S, n) == (CosMicro(i, S) * n + 500000) \div 1000000
Dist(a, b) == IF a >= b THEN a - b ELSE b - a
\* positions of batch item b replaced by mask-id at level q by _level_mask
MaskedAt(b) == {n \in DOMAIN label[b] : masked_codes[q][b][n] = mask_token_id}
\* round(a / d), half up
RoundDiv(a, d) == (2 * a + d) \div (2 * d)
\* ceil(a / d)
CeilDiv(a, d) == (a + d - 1) \div d

\* C1: prompt invariance.  _masking leaves positions [0, t) of every level
\* at their input value and gives them the ignore sentinel in the labels;
\* generate() never changes the prompt: the buffer given to the network at
\* every step and the returned tensor begin with the input prompt.
C1_PromptInvariance ==
  [][ /\ pc = "fwd" =>
           \A b \in DOMAIN codes : \A n \in 0 .. (t - 1) :
              /\ label'[b][n] = ignore_index
              /\ \A l \in Levels : masked_codes'[l][b][n] = codes[b][n][l]
              /\ codes'[b][n] = codes[b][n]
      /\ (pc \in {"outer", "inner"}) =>
           /\ num_prompt' = num_prompt
           /\ \A n \in 0 .. (num_prompt - 1) :
                 /\ Cat(Prompt, seq)'[n] = codes[0][n]
                 /\ pc' = "done" => out'[n] = codes[0][n]
    ]_vars

\* C1 witness: _masking has run with a non-empty prompt below a fine level
C1_Witness == pc = "masked" /\ t > 0 /\ q = 0

\* C2: level ordering.  While level k is decoded every continuation position
\* of every level above k holds mask-id and is flagged masked, and a step of
\* generate() changes no value and no flag of a level other than k.
C2_LevelOrdering ==
  [][ /\ pc' = "inner" =>
           \A n \in Pos' : \A j \in Levels :
              j > rvq_layer' => seq'[n][j] = mask_token_id /\ mask'[n][j]
      /\ (pc \in {"outer", "inner"}) =>
           \A n \in Pos : \A j \in Levels :
              j # rvq_layer => seq'[n][j] = seq[n][j] /\ mask'[n][j] = mask[n][j]
    ]_vars

\* C2 witness: level 0 is being decoded, some of it is already resolved
C2_Witness ==
  /\ Decoding /\ rvq_layer = 0 /\ step >= 1
  /\ \E n \in Pos : seq[n][0] # mask_token_id

\* C3 as stated: after step i (0-based) of level k the number of positions
\* still masked is within 1 of round(cos(pi/2 * i/S_k) * total_maskable).
C3_AsStated ==
  (Decoding /\ step >= 1) =>
     Dist(MaskIdCount(rvq_layer),
          RoundCos(step - 1, steps[rvq_layer], Cardinality(Pos))) <= 1

\* C3 amended: after step i (0-based) of level k the number of continuation
\* positions holding mask-id is the schedule entry of that step, which is
\* within 1 of round(cos(pi/2 * (i+1)/S_k) * total_maskable).
C3_ScheduleConformance ==
  (Decoding /\ step >= 1) =>
     /\ MaskIdCount(rvq_layer) = all_mask_num_tokens[step]
     /\ Dist(MaskIdCount(rvq_layer),
             RoundCos(step, steps[rvq_layer], Cardinality(Pos))) <= 1

\* C3 witness: a step has left part of the level masked
C3_Witness ==
  /\ Decoding /\ step >= 1
  /\ MaskIdCount(rvq_layer) > 0
  /\ MaskIdCount(rvq_layer) < Cardinality(Pos)

\* C4: re-mask source restriction.  The positions flagged masked, or holding
\* mask-id, at level k after a step were flagged masked before it.
C4_RemaskSource ==
  [][ (Decoding /\ step' = step + 1) =>
        \A n \in Pos :
           (mask'[n][rvq_layer] \/ seq'[n][rvq_layer] = mask_token_id)
              => mask[n][rvq_layer]
    ]_vars

\* C4 witness: a re-masking step has run while a position was already
\* resolved
C4_Witness ==
  /\ Decoding /\ step >= 2
  /\ all_mask_num_tokens[step] > 0
  /\ \E n \in Pos : ~mask[n][rvq_layer]
  /\ \E n \in Pos : mask[n][rvq_layer]

\* C5: completion.  The tensor generate() returns holds a vocabulary code at
\* every position of every level, none is mask-id, and its length is the
\* prompt length plus the continuation length.
C5_Completion ==
  pc = "done" =>
     /\ \A n \in DOMAIN out : \A l \in Levels : out[n][l] \in Vocab
     /\ Cardinality(DOMAIN out) = num_prompt + Cardinality(Pos)
     /\ Cardinality(DOMAIN out) = Cardinality(DOMAIN codes[0])

\* C5 witness: generate() has returned a prompt and a longer continuation
C5_Witness == pc = "done" /\ num_prompt >= 1 /\ Cardinality(Pos) >= 2

\* C6: training mask coverage.  The labels are the ground truth exactly at
\* the positions whose level-q input became mask-id and the ignore sentinel
\* everywhere else, the prompt included.
C6_MaskCoverage ==
  pc = "masked" =>
     \A b \in DOMAIN label : \A n \in DOMAIN label[b] :
        /\ (label[b][n] # ignore_index) <=> (masked_codes[q][b][n] = mask_token_id)
        /\ label[b][n] # ignore_index => label[b][n] = codes[b][n][q]
        /\ n < t => label[b][n] = ignore_index

\* C6 witness: a mask that covers part of the maskable region, after a prompt
C6_Witness ==
  /\ pc = "masked" /\ t > 0
  /\ \E n \in DOMAIN label[0] : label[0][n] # ignore_index
  /\ \E n \in DOMAIN label[0] : n >= t /\ label[0][n] = ignore_index

\* C7 as stated: the number of positions masked at level q is
\* max(1, round(r * (time - t))), all of them in [t, time).
C7_AsStated ==
  pc = "masked" =>
     \A b \in DOMAIN label :
        /\ Cardinality(MaskedAt(b)) =
              Max(1, RoundDiv(rand_probs[b] * (SeqLen(codes) - t), RatioDen))
        /\ \A n \in MaskedAt(b) : n >= t

\* C7 amended: the number of positions masked at level q is
\* max(1, ceil(r * (time - t))), all of them in [t, time).
C7_MaskCount ==
  pc = "masked" =>
     \A b \in DOMAIN label :
        /\ Cardinality(MaskedAt(b)) =
              Max(1, CeilDiv(rand_probs[b] * (SeqLen(codes) - t), RatioDen))
        /\ \A n \in MaskedAt(b) : n >= t

\* C7 witness: the product r * (time - t) is above 1 and not an integer
C7_Witness ==
  /\ pc = "masked"
  /\ rand_probs[0] * (SeqLen(codes) - t) > RatioDen
  /\ (rand_probs[0] * (SeqLen(codes) - t)) % RatioDen # 0

\* C8 as stated: top_k leaves at least one logit per position that is not
\* -infinity, for every filter_threshold in (0, 1].
C8_AsStated ==
  pc = "topk" => \A n \in DOMAIN probs : Retained(probs[n]) # {}

\* C9 as stated: once the inner loop of level k is over, no continuation
\* position of level k is flagged masked.
C9_AsStated ==
  InGenerate =>
     \A l \in Levels : l < rvq_layer => \A n \in Pos : ~mask[n][l]

\* C10 as stated: _masking leaves the caller's codes tensor as it was.
C10_AsStated == [][pc = "fwd" => codes' = codes]_vars

\* C11 as stated: a continuation position that holds a sampled code after a
\* step of its level (it was not re-masked, or the step's target was zero)
\* keeps that value through every later step of generate().
C11_AsStated ==
  [][ (pc \in {"outer", "inner"}) =>
        \A n \in Pos : \A l \in Levels :
           (l <= rvq_layer /\ seq[n][l] # mask_token_id) => seq'[n][l] = seq[n][l]
    ]_vars
====
